---- MODULE Spec2Model ----
(***************************************************************************)
(* passh: the SSH-key-backed encryptor (pkg/crypto) and the hierarchical   *)
(* password store (pkg/storage) built on it.                               *)
(*                                                                         *)
(* Strings are sequences of character codes.  An encrypted string is a     *)
(* sequence over the base64 alphabet (sextet values 0..63), the padding    *)
(* character and the field separator ':'.                                  *)
(***************************************************************************)
EXTENDS Integers, Sequences, FiniteSets, TLC

VARIABLES
    publicKeys,   \* SSHEncryptor.publicKeys: sequence of key ids
    privateKeys,  \* SSHEncryptor.privateKeys: sequence of signers (by key id)
    plain,        \* the data handed to Encrypt
    randOk,       \* whether rand.Reader delivers the 32 key bytes
    envelope,     \* the string returned by Encrypt, possibly modified since
    encErr,       \* error returned by Encrypt
    tampered,     \* the envelope's data field was modified after Encrypt
    decOut,       \* bytes returned by Decrypt
    decErr,       \* error returned by Decrypt
    cpc,          \* position of the cipher scenario
    dirs,         \* file system: the directories, as cleaned absolute paths
    files,        \* file system: regular files, path -> content
    modes,        \* file system: permission bits of each directory and file
    result,       \* what the last store operation did and returned
    lastOp,       \* per name, the last successful Add or Delete on that name
    nops,         \* number of store operations performed
    wr,           \* per process, the Add it is executing step by step
    inv           \* the command-line invocation: flags, environment, key setup

cipherVars == <<publicKeys, privateKeys, plain, randOk, envelope, encErr,
                tampered, decOut, decErr, cpc>>

storeVars == <<dirs, files, modes, result, lastOp, nops, wr>>

vars == <<cipherVars, storeVars, inv>>

\* No command is being run
NoInvocation == [pc |-> "none"]

----------------------------------------------------------------------------
(* Bounds *)

MaxPlainLen == 3
MaxKeys == 2
MaxSigners == 1
MaxOps == 3
MaxAdds == 2
MaxRecipients == 3

----------------------------------------------------------------------------
(* Alphabet of encrypted strings *)

PadChar == 64
Colon == 65
NulChar == 66

ByteValues == {107, 255}
Keys == {1, 2, 3}

RECURSIVE SeqsUpTo(_, _)
SeqsUpTo(S, n) ==
    IF n = 0 THEN {<<>>}
    ELSE LET shorter == SeqsUpTo(S, n - 1)
         IN  shorter \cup {Append(s, x) : s \in {t \in shorter : Len(t) = n - 1}, x \in S}

Range(s) == {s[i] : i \in DOMAIN s}

Drop(s, n) == SubSeq(s, n + 1, Len(s))

----------------------------------------------------------------------------
(* encoding/base64 StdEncoding *)

EncodeQuantum(b1, b2, b3) ==
    << b1 \div 4,
       (b1 % 4) * 16 + (b2 \div 16),
       (b2 % 16) * 4 + (b3 \div 64),
       b3 % 64 >>

RECURSIVE EncodeToString(_)
EncodeToString(src) ==
    IF Len(src) = 0 THEN <<>>
    ELSE IF Len(src) = 1 THEN
        << src[1] \div 4, (src[1] % 4) * 16, PadChar, PadChar >>
    ELSE IF Len(src) = 2 THEN
        << src[1] \div 4, (src[1] % 4) * 16 + (src[2] \div 16),
           (src[2] % 16) * 4, PadChar >>
    ELSE EncodeQuantum(src[1], src[2], src[3]) \o EncodeToString(Drop(src, 3))

IsSextet(c) == c \in 0..63

\* DecodeString is not strict: the unused low bits of the last sextet before
\* the padding are not checked.  A result is [ok, val].
RECURSIVE DecodeString(_)
DecodeString(s) ==
    IF Len(s) = 0 THEN [ok |-> TRUE, val |-> <<>>]
    ELSE IF Len(s) < 4 THEN [ok |-> FALSE, val |-> <<>>]
    ELSE IF ~IsSextet(s[1]) \/ ~IsSextet(s[2]) THEN [ok |-> FALSE, val |-> <<>>]
    ELSE LET b1 == s[1] * 4 + (s[2] \div 16) IN
        IF s[3] = PadChar THEN
            IF s[4] = PadChar /\ Len(s) = 4
            THEN [ok |-> TRUE, val |-> <<b1>>]
            ELSE [ok |-> FALSE, val |-> <<>>]
        ELSE IF ~IsSextet(s[3]) THEN [ok |-> FALSE, val |-> <<>>]
        ELSE LET b2 == (s[2] % 16) * 16 + (s[3] \div 4) IN
            IF s[4] = PadChar THEN
                IF Len(s) = 4
                THEN [ok |-> TRUE, val |-> <<b1, b2>>]
                ELSE [ok |-> FALSE, val |-> <<>>]
            ELSE IF ~IsSextet(s[4]) THEN [ok |-> FALSE, val |-> <<>>]
            ELSE LET b3 == (s[3] % 4) * 64 + s[4]
                     rest == DecodeString(Drop(s, 4))
                 IN  IF rest.ok
                     THEN [ok |-> TRUE, val |-> <<b1, b2, b3>> \o rest.val]
                     ELSE [ok |-> FALSE, val |-> <<>>]

----------------------------------------------------------------------------
(* strings.Split(s, ":") *)

RECURSIVE SplitOn(_, _)
SplitOn(s, sep) ==
    IF \A i \in DOMAIN s : s[i] # sep THEN <<s>>
    ELSE LET i == CHOOSE j \in DOMAIN s :
                      s[j] = sep /\ \A k \in 1..(j - 1) : s[k] # sep
         IN  <<SubSeq(s, 1, i - 1)>> \o SplitOn(Drop(s, i), sep)

----------------------------------------------------------------------------
(* SSHEncryptor *)

\* ssh.PublicKey.Marshal: the wire bytes of a key, distinct per key
Marshal(k) == <<k, 107>>

RECURSIVE JoinBlocks(_)
JoinBlocks(keys) ==
    IF keys = <<>> THEN <<>>
    ELSE <<Colon>> \o EncodeToString(Marshal(keys[1])) \o JoinBlocks(Tail(keys))

\* Encrypt without the check for an empty recipient list
Encrypt_noRecipientCheck(pubs, data, rnd) ==
    IF ~rnd THEN [err |-> "ErrRandomKey", out |-> <<>>]
    ELSE [err |-> "nil", out |-> EncodeToString(data) \o JoinBlocks(pubs)]

\* Encrypt writing the data field after the recipient fields
Encrypt_dataLast(pubs, data, rnd) ==
    IF Len(pubs) = 0 THEN [err |-> "ErrNoPublicKeys", out |-> <<>>]
    ELSE IF ~rnd THEN [err |-> "ErrRandomKey", out |-> <<>>]
    ELSE [err |-> "nil",
          out |-> Tail(JoinBlocks(pubs)) \o <<Colon>> \o EncodeToString(data)]

\* Encrypt returns [err, out]
Encrypt(pubs, data, rnd) ==
    IF Len(pubs) = 0 THEN [err |-> "ErrNoPublicKeys", out |-> <<>>]
    ELSE IF ~rnd THEN [err |-> "ErrRandomKey", out |-> <<>>]
    ELSE [err |-> "nil", out |-> EncodeToString(data) \o JoinBlocks(pubs)]

\* Decrypt decoding the second field instead of the first
Decrypt_secondField(privs, encryptedData) ==
    IF Len(privs) = 0 THEN [err |-> "ErrNoPrivateKeys", out |-> <<>>]
    ELSE LET parts == SplitOn(encryptedData, Colon) IN
        IF Len(parts) < 2 THEN [err |-> "ErrInvalidFormat", out |-> <<>>]
        ELSE LET decoded == DecodeString(parts[2]) IN
            IF ~decoded.ok THEN [err |-> "ErrDecode", out |-> <<>>]
            ELSE [err |-> "nil", out |-> decoded.val]

\* Decrypt that wants one of its signers among the recipient fields
Decrypt_matchingSigner(privs, encryptedData) ==
    IF Len(privs) = 0 THEN [err |-> "ErrNoPrivateKeys", out |-> <<>>]
    ELSE LET parts == SplitOn(encryptedData, Colon) IN
        IF Len(parts) < 2 THEN [err |-> "ErrInvalidFormat", out |-> <<>>]
        ELSE IF \A i \in DOMAIN privs, j \in 2..Len(parts) :
                    parts[j] # EncodeToString(Marshal(privs[i]))
        THEN [err |-> "ErrNoMatchingKey", out |-> <<>>]
        ELSE LET decoded == DecodeString(parts[1]) IN
            IF ~decoded.ok THEN [err |-> "ErrDecode", out |-> <<>>]
            ELSE [err |-> "nil", out |-> decoded.val]

\* Decrypt returns [err, out]
Decrypt(privs, encryptedData) ==
    IF Len(privs) = 0 THEN [err |-> "ErrNoPrivateKeys", out |-> <<>>]
    ELSE LET parts == SplitOn(encryptedData, Colon) IN
        IF Len(parts) < 2 THEN [err |-> "ErrInvalidFormat", out |-> <<>>]
        ELSE LET decoded == DecodeString(parts[1]) IN
            IF ~decoded.ok THEN [err |-> "ErrDecode", out |-> <<>>]
            ELSE [err |-> "nil", out |-> decoded.val]

----------------------------------------------------------------------------
(* The cipher scenario: an encryptor with some keys encrypts a plaintext,  *)
(* the stored string may be modified, and an encryptor decrypts it.        *)

TamperChars == {0, 27, PadChar, Colon}

CipherInit ==
    /\ publicKeys \in SeqsUpTo(Keys, MaxKeys)
    /\ privateKeys \in SeqsUpTo(Keys, MaxSigners)
    /\ plain \in SeqsUpTo(ByteValues, MaxPlainLen)
    /\ randOk \in BOOLEAN
    /\ envelope = <<>>
    /\ encErr = "none"
    /\ tampered = FALSE
    /\ decOut = <<>>
    /\ decErr = "none"
    /\ cpc = "start"
    /\ dirs = {}
    /\ modes = <<>>
    /\ inv = NoInvocation
    /\ files = <<>>
    /\ result = [op |-> "none"]
    /\ lastOp = <<>>
    /\ nops = 0
    /\ wr = <<>>

DoEncrypt ==
    /\ cpc = "start"
    /\ LET r == Encrypt(publicKeys, plain, randOk) IN
        /\ envelope' = r.out
        /\ encErr' = r.err
    /\ cpc' = "encrypted"
    /\ UNCHANGED <<publicKeys, privateKeys, plain, randOk, tampered, decOut, decErr>>
    /\ UNCHANGED <<storeVars, inv>>

\* Length of the data field (the ciphertext portion) of an encrypted string
DataFieldLen(s) == Len(SplitOn(s, Colon)[1])

Tamper ==
    /\ cpc = "encrypted"
    /\ encErr = "nil"
    /\ \E i \in 1..DataFieldLen(envelope), c \in TamperChars :
        /\ c # envelope[i]
        /\ envelope' = [envelope EXCEPT ![i] = c]
    /\ tampered' = TRUE
    /\ cpc' = "modified"
    /\ UNCHANGED <<publicKeys, privateKeys, plain, randOk, encErr, decOut, decErr>>
    /\ UNCHANGED <<storeVars, inv>>

DoDecrypt ==
    /\ cpc \in {"encrypted", "modified"}
    /\ encErr = "nil"
    /\ LET r == Decrypt(privateKeys, envelope) IN
        /\ decOut' = r.out
        /\ decErr' = r.err
    /\ cpc' = "decrypted"
    /\ UNCHANGED <<publicKeys, privateKeys, plain, randOk, envelope, encErr, tampered>>
    /\ UNCHANGED <<storeVars, inv>>

CipherNext == DoEncrypt \/ Tamper \/ DoDecrypt

SpecCipher == CipherInit /\ [][CipherNext]_vars

----------------------------------------------------------------------------
(* Properties of the encryptor *)

\* A signer matches a recipient slot when it is the private half of that key
SignerMatches == \E i \in DOMAIN privateKeys : privateKeys[i] \in Range(publicKeys)

\* C1: for a non-empty plaintext and a non-empty recipient list, decrypting
\* the unmodified output of Encrypt with a signer of one of the recipients
\* returns exactly the plaintext, whatever the other recipients are.
C1_RoundTrip ==
    (cpc = "decrypted" /\ ~tampered /\ Len(plain) > 0 /\ SignerMatches)
        => (decErr = "nil" /\ decOut = plain)

C1_Witness ==
    /\ cpc = "decrypted"
    /\ ~tampered
    /\ Len(publicKeys) = 2
    /\ publicKeys[1] # publicKeys[2]
    /\ privateKeys = <<publicKeys[2]>>
    /\ Len(plain) = 2
    /\ decErr = "nil"
    /\ decOut = plain

\* The error Decrypt has for missing key material
AuthErrors == {"ErrNoPrivateKeys"}

\* C2: Decrypt fails with an authentication error and returns no plaintext
\* whenever no available signer matches a recipient slot of the envelope.
C2_NoMatchingSignerFails ==
    (cpc = "decrypted" /\ ~tampered /\ ~SignerMatches)
        => (decErr \in AuthErrors /\ decOut = <<>>)

\* The error Decrypt has for a data field it cannot decode
IntegrityErrors == {"ErrDecode"}

\* C3: after any change to the data field of an envelope, Decrypt fails with
\* an integrity error and returns no plaintext.
C3_ModifiedEnvelopeFails ==
    (cpc = "decrypted" /\ tampered /\ SignerMatches)
        => (decErr \in IntegrityErrors /\ decOut = <<>>)

\* C4: Encrypt with no recipient fails with an error and returns no envelope,
\* for every plaintext.
C4_EmptyRecipientsFail ==
    (cpc # "start" /\ Len(publicKeys) = 0)
        => (encErr \notin {"nil", "none"} /\ envelope = <<>>)

C4_Witness ==
    /\ cpc = "encrypted"
    /\ Len(publicKeys) = 0
    /\ Len(plain) > 0
    /\ randOk
    /\ encErr = "ErrNoPublicKeys"
    /\ envelope = <<>>

----------------------------------------------------------------------------
(* path/filepath on cleaned absolute paths.  A path is the sequence of its *)
(* segments below "/"; a name is a string.                                 *)

Slash == 47
Dot == 46

\* ".pass"
Ext == <<46, 112, 97, 115, 115>>

\* The store directory, ~/.passh, below the home directory
HomeDir == << <<104>> >>
RootDir == << <<104>>, <<115>> >>

Front(p) == SubSeq(p, 1, Len(p) - 1)

\* filepath.Clean of root + "/" + the segments, root being clean and rooted
RECURSIVE CleanFrom(_, _)
CleanFrom(stack, segs) ==
    IF segs = <<>> THEN stack
    ELSE LET h == Head(segs) IN
        IF h = <<>> \/ h = <<Dot>> THEN CleanFrom(stack, Tail(segs))
        ELSE IF h = <<Dot, Dot>>
            THEN CleanFrom(IF stack = <<>> THEN <<>> ELSE Front(stack), Tail(segs))
        ELSE CleanFrom(Append(stack, h), Tail(segs))

\* filepath.Join(root, elem): empty elements are ignored, the rest is cleaned
Join(root, elem) ==
    IF elem = <<>> THEN root ELSE CleanFrom(root, SplitOn(elem, Slash))

\* filepath.Dir
Dir(p) == IF p = <<>> THEN <<>> ELSE Front(p)

HasSuffix(s, suffix) ==
    /\ Len(s) >= Len(suffix)
    /\ SubSeq(s, Len(s) - Len(suffix) + 1, Len(s)) = suffix

TrimSuffix(s, suffix) ==
    IF HasSuffix(s, suffix) THEN SubSeq(s, 1, Len(s) - Len(suffix)) ELSE s

IsPrefix(p, q) == Len(p) <= Len(q) /\ SubSeq(q, 1, Len(p)) = p

\* filepath.Rel(root, path) for a path below root: the segments joined by "/"
RECURSIVE JoinSegs(_)
JoinSegs(segs) ==
    IF segs = <<>> THEN <<>>
    ELSE IF Len(segs) = 1 THEN segs[1]
    ELSE segs[1] \o <<Slash>> \o JoinSegs(Tail(segs))

Rel(root, path) == JoinSegs(Drop(path, Len(root)))

----------------------------------------------------------------------------
(* package os on the modelled file system *)

AncestorsOrSelf(p) == {SubSeq(p, 1, i) : i \in 0..Len(p)}

Children(ds, fs, p) ==
    {q \in ds \cup DOMAIN fs : Len(q) = Len(p) + 1 /\ IsPrefix(p, q)}

\* os.MkdirAll(dir, 0700): fails when dir or an ancestor is a regular file;
\* otherwise every missing directory on the way is created.
MkdirAll(ds, fs, dir) ==
    IF \E q \in AncestorsOrSelf(dir) : q \in DOMAIN fs
    THEN [err |-> "ENOTDIR", dirs |-> ds]
    ELSE [err |-> "nil", dirs |-> ds \cup AncestorsOrSelf(dir)]

\* os.OpenFile(path, O_WRONLY|O_CREATE|O_TRUNC, 0600): the file exists and is
\* empty afterwards
OpenTrunc(ds, fs, path) ==
    IF path \in ds THEN [err |-> "EISDIR", files |-> fs]
    ELSE IF Dir(path) \notin ds THEN [err |-> "ENOENT", files |-> fs]
    ELSE [err |-> "nil",
          files |-> [q \in DOMAIN fs \cup {path} |-> IF q = path THEN <<>> ELSE fs[q]]]

\* The content of a file after a write of bytes at offset off; a gap between
\* the end of the file and the offset reads as NUL characters
WriteAt(content, off, bytes) ==
    LET end == off + Len(bytes)
        len == IF Len(content) > end THEN Len(content) ELSE end
    IN  [i \in 1..len |->
            IF i > off /\ i <= end THEN bytes[i - off]
            ELSE IF i <= Len(content) THEN content[i]
            ELSE NulChar]

\* os.WriteFile(path, data, 0600): open with O_CREATE|O_TRUNC, write, close
WriteFile(ds, fs, path, data) ==
    LET o == OpenTrunc(ds, fs, path) IN
    IF o.err # "nil" THEN [err |-> o.err, files |-> fs]
    ELSE [err |-> "nil",
          files |-> [o.files EXCEPT ![path] = WriteAt(o.files[path], 0, data)]]

\* os.ReadFile(path)
ReadFile(ds, fs, path) ==
    IF path \in DOMAIN fs THEN [err |-> "nil", data |-> fs[path]]
    ELSE IF path \in ds THEN [err |-> "EISDIR", data |-> <<>>]
    ELSE [err |-> "ENOENT", data |-> <<>>]

\* os.Remove(path): unlinks a file, or removes an empty directory
Remove(ds, fs, path) ==
    IF path \in DOMAIN fs
    THEN [err |-> "nil", dirs |-> ds, files |-> [q \in DOMAIN fs \ {path} |-> fs[q]]]
    ELSE IF path \in ds THEN
        IF Children(ds, fs, path) = {} /\ path # <<>>
        THEN [err |-> "nil", dirs |-> ds \ {path}, files |-> fs]
        ELSE [err |-> "ENOTEMPTY", dirs |-> ds, files |-> fs]
    ELSE [err |-> "ENOENT", dirs |-> ds, files |-> fs]

\* Byte-wise order of strings, the order in which filepath.Walk visits the
\* entries of a directory
RECURSIVE StrLess(_, _)
StrLess(a, b) ==
    IF b = <<>> THEN FALSE
    ELSE IF a = <<>> THEN TRUE
    ELSE IF a[1] # b[1] THEN a[1] < b[1]
    ELSE StrLess(Tail(a), Tail(b))

RECURSIVE SortStrings_descending(_)
SortStrings_descending(S) ==
    IF S = {} THEN <<>>
    ELSE LET m == CHOOSE x \in S : \A y \in S \ {x} : StrLess(y, x)
         IN  <<m>> \o SortStrings_descending(S \ {m})

RECURSIVE SortStrings(_)
SortStrings(S) ==
    IF S = {} THEN <<>>
    ELSE LET m == CHOOSE x \in S : \A y \in S \ {x} : StrLess(x, y)
         IN  <<m>> \o SortStrings(S \ {m})

\* Permission bits the store passes to os.MkdirAll and os.WriteFile
DirPerm == "0700"
FilePerm == "0600"

\* os.MkdirAll and os.WriteFile apply their permission argument only to what
\* they create: a directory or file that exists keeps the mode it has (the
\* process umask is taken to leave the owner's bits alone)
ModesAfter(ms, ds, fs) ==
    [p \in ds \cup DOMAIN fs |->
        IF p \in DOMAIN ms THEN ms[p]
        ELSE IF p \in ds THEN DirPerm ELSE FilePerm]

----------------------------------------------------------------------------
(* Store *)

\* "a", "a/b", "./a", "../e", "/a", "", "a.pass/b", "a//b"
Names ==
    { <<97>>,
      <<97, 47, 98>>,
      <<46, 47, 97>>,
      <<46, 46, 47, 101>>,
      <<47, 97>>,
      <<>>,
      <<97>> \o Ext \o <<47, 98>>,
      <<97, 47, 47, 98>> }

\* filePath in Add, Get and Delete: filepath.Join(s.rootDir, name+".pass")
FilePath == [name \in Names |-> Join(RootDir, name \o Ext)]

\* dir in Add: filepath.Dir(filepath.Join(s.rootDir, name))
ParentDir == [name \in Names |-> Dir(Join(RootDir, name))]

\* Store.List's walk below directory p: the entries in the order visited
RECURSIVE WalkFrom(_, _, _, _)
RECURSIVE WalkEntries(_, _, _, _, _)
WalkEntries(ds, fs, root, p, names) ==
    IF names = <<>> THEN <<>>
    ELSE LET q == Append(p, Head(names))
             here == IF q \in ds THEN WalkFrom(ds, fs, root, q)
                     ELSE IF HasSuffix(Head(names), Ext)
                          THEN <<TrimSuffix(Rel(root, q), Ext)>>
                          ELSE <<>>
         IN  here \o WalkEntries(ds, fs, root, p, Tail(names))

WalkFrom(ds, fs, root, p) ==
    WalkEntries(ds, fs, root, p,
                SortStrings({q[Len(q)] : q \in Children(ds, fs, p)}))

\* Store.List returns [err, entries]
List(ds, fs, root) ==
    IF root \notin ds THEN [err |-> "ErrList", entries |-> <<>>]
    ELSE [err |-> "nil", entries |-> WalkFrom(ds, fs, root, root)]

\* Store.Get returns [err, out, path]
Get(ds, fs, privs, name) ==
    LET filePath == FilePath[name]
        rd == ReadFile(ds, fs, filePath)
    IN  IF rd.err # "nil"
        THEN [err |-> "ErrRead", cause |-> rd.err, out |-> <<>>, path |-> filePath]
        ELSE LET d == Decrypt(privs, rd.data) IN
            IF d.err # "nil"
            THEN [err |-> "ErrDecryption", cause |-> d.err, out |-> <<>>, path |-> filePath]
            ELSE [err |-> "nil", cause |-> "nil", out |-> d.out, path |-> filePath]

\* Store.Add creating the directory and opening the file before it encrypts
AddResult_encryptLast(ds, fs, pubs, name, password, rnd) ==
    LET enc == Encrypt(pubs, password, rnd)
        mk == MkdirAll(ds, fs, ParentDir[name])
        wf == WriteFile(mk.dirs, fs, FilePath[name], enc.out)
    IN  IF mk.err # "nil"
        THEN [err |-> "ErrMkdir", cause |-> mk.err, dirs |-> ds, files |-> fs]
        ELSE IF wf.err # "nil"
        THEN [err |-> "ErrWrite", cause |-> wf.err, dirs |-> mk.dirs, files |-> fs]
        ELSE IF enc.err # "nil"
        THEN [err |-> "ErrEncryption", cause |-> enc.err,
              dirs |-> mk.dirs, files |-> wf.files]
        ELSE [err |-> "nil", cause |-> "nil", dirs |-> mk.dirs, files |-> wf.files]

\* Store.Add returns [err, dirs, files]: the error and the file system it leaves
AddResult(ds, fs, pubs, name, password, rnd) ==
    LET enc == Encrypt(pubs, password, rnd) IN
    IF enc.err # "nil"
    THEN [err |-> "ErrEncryption", cause |-> enc.err, dirs |-> ds, files |-> fs]
    ELSE LET dir == ParentDir[name]
             mk == MkdirAll(ds, fs, dir)
         IN  IF mk.err # "nil"
             THEN [err |-> "ErrMkdir", cause |-> mk.err, dirs |-> ds, files |-> fs]
             ELSE LET filePath == FilePath[name]
                      wf == WriteFile(mk.dirs, fs, filePath, enc.out)
                  IN  IF wf.err # "nil"
                      THEN [err |-> "ErrWrite", cause |-> wf.err,
                            dirs |-> mk.dirs, files |-> fs]
                      ELSE [err |-> "nil", cause |-> "nil",
                            dirs |-> mk.dirs, files |-> wf.files]

\* Store.Delete returns [err, dirs, files]
DeleteResult(ds, fs, name) ==
    LET filePath == FilePath[name]
        rm == Remove(ds, fs, filePath)
    IN  IF rm.err # "nil"
        THEN [err |-> "ErrRemove", cause |-> rm.err, dirs |-> ds, files |-> fs]
        ELSE [err |-> "nil", cause |-> "nil", dirs |-> rm.dirs, files |-> rm.files]

----------------------------------------------------------------------------
(* The store scenario: a sequence of operations on one store, every        *)
(* operation run to completion by an invocation whose key setup succeeded. *)

Secrets == { <<107>>, <<255, 107>> }

StoreKeys == {1, 2}

\* The longest encrypted string of the scenarios: one write call may transfer
\* any part of what is left
MaxChunk == Len(EncodeToString(<<255, 107>>) \o JoinBlocks(<<1>>))

NoOp == [kind |-> "none", secret |-> <<>>]

\* The paths that exist in one file system and not in the other, or whose
\* content differs
Changed(ds1, fs1, ds2, fs2) ==
    ((ds1 \ ds2) \cup (ds2 \ ds1))
    \cup ((DOMAIN fs1 \ DOMAIN fs2) \cup (DOMAIN fs2 \ DOMAIN fs1))
    \cup {q \in DOMAIN fs1 \cap DOMAIN fs2 : fs1[q] # fs2[q]}

StoreInit ==
    /\ publicKeys = <<1>>
    /\ privateKeys \in {<<k>> : k \in StoreKeys}
    /\ plain = <<>>
    /\ randOk = TRUE
    /\ envelope = <<>>
    /\ encErr = "none"
    /\ tampered = FALSE
    /\ decOut = <<>>
    /\ decErr = "none"
    /\ cpc = "store"
    /\ dirs = AncestorsOrSelf(RootDir)
    /\ modes = [p \in AncestorsOrSelf(RootDir) |-> IF p = RootDir THEN DirPerm ELSE "0755"]
    /\ inv = NoInvocation
    /\ files = <<>>
    /\ result = [op |-> "none"]
    /\ lastOp = [n \in Names |-> NoOp]
    /\ nops = 0
    /\ wr = <<>>

Add(name, password, rnd) ==
    /\ cpc = "store"
    /\ nops < MaxOps
    /\ LET r == AddResult(dirs, files, publicKeys, name, password, rnd)
           filePath == FilePath[name]
       IN
        /\ dirs' = r.dirs
        /\ files' = r.files
        /\ modes' = ModesAfter(modes, r.dirs, r.files)
        /\ result' = [op |-> "Add", name |-> name, err |-> r.err, cause |-> r.cause,
                      out |-> <<>>, entries |-> <<>>, rnd |-> rnd,
                      existed |-> filePath \in DOMAIN files,
                      created |-> (r.dirs \ dirs) \cup (DOMAIN r.files \ DOMAIN files),
                      touched |-> (r.dirs \ dirs)
                                  \cup (IF r.err = "nil" THEN {filePath} ELSE {})]
        /\ lastOp' = IF r.err = "nil"
                     THEN [lastOp EXCEPT ![name] = [kind |-> "add", secret |-> password]]
                     ELSE lastOp
    /\ nops' = nops + 1
    /\ UNCHANGED wr
    /\ UNCHANGED <<cipherVars, inv>>

GetOp(name) ==
    /\ nops < MaxOps
    /\ LET r == Get(dirs, files, privateKeys, name) IN
        result' = [op |-> "Get", name |-> name, err |-> r.err, cause |-> r.cause,
                   out |-> r.out, entries |-> <<>>,
                   existed |-> FilePath[name] \in DOMAIN files, created |-> {},
                   touched |-> IF r.cause \in {"ENOENT", "EISDIR"} THEN {} ELSE {r.path}]
    /\ nops' = nops + 1
    /\ UNCHANGED <<dirs, files, modes, lastOp, wr>>
    /\ UNCHANGED <<cipherVars, inv>>

ListOp ==
    /\ nops < MaxOps
    /\ LET r == List(dirs, files, RootDir) IN
        result' = [op |-> "List", name |-> <<>>, err |-> r.err, cause |-> r.err,
                   out |-> <<>>, entries |-> r.entries, existed |-> FALSE,
                   created |-> {}, touched |-> {}]
    /\ nops' = nops + 1
    /\ UNCHANGED <<dirs, files, modes, lastOp, wr>>
    /\ UNCHANGED <<cipherVars, inv>>

Delete(name) ==
    /\ nops < MaxOps
    /\ LET r == DeleteResult(dirs, files, name) IN
        /\ dirs' = r.dirs
        /\ files' = r.files
        /\ modes' = ModesAfter(modes, r.dirs, r.files)
        /\ result' = [op |-> "Delete", name |-> name, err |-> r.err, cause |-> r.cause,
                      out |-> <<>>, entries |-> <<>>,
                      existed |-> FilePath[name] \in DOMAIN files, created |-> {},
                      touched |-> Changed(dirs, files, r.dirs, r.files)]
        /\ lastOp' = IF r.err = "nil"
                     THEN [lastOp EXCEPT ![name] = [kind |-> "delete", secret |-> <<>>]]
                     ELSE lastOp
    /\ nops' = nops + 1
    /\ UNCHANGED wr
    /\ UNCHANGED <<cipherVars, inv>>

Next ==
    \/ \E name \in Names, password \in Secrets, rnd \in BOOLEAN : Add(name, password, rnd)
    \/ \E name \in Names : GetOp(name)
    \/ ListOp
    \/ \E name \in Names : Delete(name)

Spec == StoreInit /\ [][Next]_vars

----------------------------------------------------------------------------
(* Store.Add step by step: the system calls of one Add are separate steps, *)
(* two invocations may run at once on the same store, and an invocation    *)
(* may be terminated between any two steps.                                *)

Procs == {1, 2}

\* "a", "a/b"
WriteNames == { <<97>>, <<97, 47, 98>> }

Idle == [pc |-> "idle", name |-> <<>>, path |-> <<>>, data |-> <<>>, off |-> 0,
         before |-> [exists |-> FALSE, data |-> <<>>], alone |-> FALSE, err |-> "nil"]

\* What a reader of path sees
Observed(fs, path) ==
    IF path \in DOMAIN fs THEN [exists |-> TRUE, data |-> fs[path]]
    ELSE [exists |-> FALSE, data |-> <<>>]

Running(p) == wr[p].pc \in {"mkdir", "open", "write"}

\* A process starting an Add ends the solitude of the other processes' Adds
Disturbed(p) ==
    [q \in Procs |-> IF q # p THEN [wr[q] EXCEPT !.alone = FALSE] ELSE wr[q]]

WriteInit ==
    /\ publicKeys = <<1>>
    /\ privateKeys = <<1>>
    /\ plain = <<>>
    /\ randOk = TRUE
    /\ envelope = <<>>
    /\ encErr = "none"
    /\ tampered = FALSE
    /\ decOut = <<>>
    /\ decErr = "none"
    /\ cpc = "store"
    /\ dirs = AncestorsOrSelf(RootDir)
    /\ modes = [p \in AncestorsOrSelf(RootDir) |-> IF p = RootDir THEN DirPerm ELSE "0755"]
    /\ inv = NoInvocation
    /\ files = <<>>
    /\ result = [op |-> "none"]
    /\ lastOp = <<>>
    /\ nops = 0
    /\ wr = [p \in Procs |-> Idle]

\* Add, line 41: Encrypt
AddEncrypt(p, name, password, rnd) ==
    /\ ~Running(p)
    /\ nops < MaxAdds
    /\ nops' = nops + 1
    /\ LET enc == Encrypt(publicKeys, password, rnd) IN
        wr' = [Disturbed(p) EXCEPT ![p] =
                  IF enc.err # "nil"
                  THEN [Idle EXCEPT !.pc = "failed", !.name = name, !.err = "ErrEncryption"]
                  ELSE [pc |-> "mkdir", name |-> name, path |-> FilePath[name],
                        data |-> enc.out, off |-> 0,
                        before |-> Observed(files, FilePath[name]),
                        alone |-> \A q \in Procs \ {p} : ~Running(q),
                        err |-> "nil"]]
    /\ UNCHANGED <<dirs, files, modes, result, lastOp>>
    /\ UNCHANGED <<cipherVars, inv>>

\* Add, line 48: MkdirAll
AddMkdirAll(p) ==
    /\ wr[p].pc = "mkdir"
    /\ LET mk == MkdirAll(dirs, files, ParentDir[wr[p].name]) IN
        /\ dirs' = mk.dirs
        /\ modes' = ModesAfter(modes, mk.dirs, files)
        /\ wr' = [wr EXCEPT ![p].pc = IF mk.err = "nil" THEN "open" ELSE "failed",
                            ![p].err = IF mk.err = "nil" THEN "nil" ELSE "ErrMkdir"]
    /\ UNCHANGED <<files, result, lastOp, nops>>
    /\ UNCHANGED <<cipherVars, inv>>

\* Add, line 54, os.WriteFile: the open
AddOpen(p) ==
    /\ wr[p].pc = "open"
    /\ LET o == OpenTrunc(dirs, files, wr[p].path) IN
        /\ files' = o.files
        /\ modes' = ModesAfter(modes, dirs, o.files)
        /\ wr' = [wr EXCEPT ![p].pc = IF o.err = "nil" THEN "write" ELSE "failed",
                            ![p].err = IF o.err = "nil" THEN "nil" ELSE "ErrWrite"]
    /\ UNCHANGED <<dirs, result, lastOp, nops>>
    /\ UNCHANGED <<cipherVars, inv>>

\* Add, line 54, os.WriteFile: one write call transfers the next k characters
AddWrite(p, k) ==
    /\ wr[p].pc = "write"
    /\ k \in 1..(Len(wr[p].data) - wr[p].off)
    /\ files' = [files EXCEPT ![wr[p].path] =
                    WriteAt(@, wr[p].off, SubSeq(wr[p].data, wr[p].off + 1, wr[p].off + k))]
    /\ wr' = [wr EXCEPT ![p].off = @ + k,
                        ![p].pc = IF wr[p].off + k = Len(wr[p].data) THEN "done" ELSE "write"]
    /\ UNCHANGED <<dirs, modes, result, lastOp, nops>>
    /\ UNCHANGED <<cipherVars, inv>>

\* The invocation is terminated in the middle of its Add
Kill(p) ==
    /\ Running(p)
    /\ wr' = [wr EXCEPT ![p].pc = "killed"]
    /\ UNCHANGED <<dirs, files, modes, result, lastOp, nops>>
    /\ UNCHANGED <<cipherVars, inv>>

WriteNext ==
    \/ \E p \in Procs, name \in WriteNames, password \in Secrets, rnd \in BOOLEAN :
           AddEncrypt(p, name, password, rnd)
    \/ \E p \in Procs : AddMkdirAll(p)
    \/ \E p \in Procs : AddOpen(p)
    \/ \E p \in Procs, k \in 1..MaxChunk : AddWrite(p, k)
    \/ \E p \in Procs : Kill(p)

SpecWrite == WriteInit /\ [][WriteNext]_vars

----------------------------------------------------------------------------
(* Permissions: the store is opened on a file system that may already hold *)
(* the root directory and an entry file, with modes the store did not      *)
(* choose (a directory made by hand, a store that was copied or restored). *)

RootModes == {"0700", "0755"}
FileModes == {"0600", "0644"}

NewStore(ds, fs, rootDir) ==
    LET mk == MkdirAll(ds, fs, rootDir) IN
    [err |-> IF mk.err = "nil" THEN "nil" ELSE "ErrCreateStore",
     cause |-> mk.err, dirs |-> mk.dirs]

PermInit ==
    /\ publicKeys = <<1>>
    /\ privateKeys = <<1>>
    /\ plain = <<>>
    /\ randOk = TRUE
    /\ envelope = <<>>
    /\ encErr = "none"
    /\ tampered = FALSE
    /\ decOut = <<>>
    /\ decErr = "none"
    /\ cpc = "fresh"
    /\ \E rootMode \in RootModes \cup {"absent"}, fileMode \in FileModes \cup {"absent"} :
        /\ rootMode = "absent" => fileMode = "absent"
        /\ dirs = AncestorsOrSelf(HomeDir)
                    \cup (IF rootMode = "absent" THEN {} ELSE {RootDir})
        /\ files = IF fileMode = "absent" THEN <<>>
                   ELSE [p \in {FilePath[<<97>>]} |->
                            Encrypt(<<1>>, <<107>>, TRUE).out]
        /\ modes = [p \in dirs \cup DOMAIN files |->
                        IF p = RootDir THEN rootMode
                        ELSE IF p \in dirs THEN "0755" ELSE fileMode]
    /\ result = [op |-> "none"]
    /\ lastOp = [n \in Names |-> NoOp]
    /\ nops = 0
    /\ wr = <<>>
    /\ inv = NoInvocation

NewStoreOp ==
    /\ nops < MaxOps
    /\ LET r == NewStore(dirs, files, RootDir) IN
        /\ dirs' = r.dirs
        /\ modes' = ModesAfter(modes, r.dirs, files)
        /\ cpc' = IF r.err = "nil" THEN "store" ELSE cpc
        /\ result' = [op |-> "NewStore", name |-> <<>>, err |-> r.err, cause |-> r.cause,
                      out |-> <<>>, entries |-> <<>>, existed |-> RootDir \in dirs,
                      created |-> r.dirs \ dirs, touched |-> r.dirs \ dirs]
    /\ nops' = nops + 1
    /\ UNCHANGED <<files, lastOp, wr, inv>>
    /\ UNCHANGED <<publicKeys, privateKeys, plain, randOk, envelope, encErr,
                   tampered, decOut, decErr>>

PermNext ==
    \/ NewStoreOp
    \/ \E name \in Names, password \in Secrets, rnd \in BOOLEAN : Add(name, password, rnd)

SpecPerm == PermInit /\ [][PermNext]_vars

----------------------------------------------------------------------------
(* Key setup of an invocation: PersistentPreRunE of the root command and   *)
(* the key loading of SSHEncryptor.  Error values are their messages.      *)

defaultSSHPrivateKeys == <<"id_ed25519", "id_ecdsa", "id_rsa">>
defaultSSHPublicKeys == <<"id_ed25519.pub", "id_ecdsa.pub", "id_rsa.pub">>

\* The loop over the default names with os.Stat: the first one that exists
RECURSIVE FirstExisting(_, _)
FirstExisting(names, present) ==
    IF names = <<>> THEN ""
    ELSE IF Head(names) \in present THEN Head(names)
    ELSE FirstExisting(Tail(names), present)

checkSSHEnvironment(e) ==
    IF ~e.sshInPath THEN "SSH is not installed or not in PATH"
    ELSE IF FirstExisting(defaultSSHPrivateKeys, e.homeKeys) = "" THEN "No SSH keys found"
    ELSE "nil"

\* sock is the value of SSH_AUTH_SOCK: "" when unset, "dead" a path where
\* nothing listens, "live" the socket of a running agent
connectToAgent(sock) ==
    IF sock = ""
    THEN [err |-> "SSH_AUTH_SOCK environment variable not set",
          agentClient |-> FALSE, dialed |-> FALSE]
    ELSE IF sock = "dead"
    THEN [err |-> "failed to connect to SSH agent", agentClient |-> FALSE, dialed |-> TRUE]
    ELSE [err |-> "nil", agentClient |-> TRUE, dialed |-> TRUE]

NewSSHEncryptor_agentRequired(useAgent, sock) ==
    LET c == connectToAgent(sock) IN
    [err |-> IF useAgent THEN c.err ELSE "nil",
     useAgent |-> useAgent,
     agentClient |-> useAgent /\ c.agentClient,
     dialed |-> useAgent /\ c.dialed,
     note |-> ""]

NewSSHEncryptor(useAgent, sock) ==
    LET c == connectToAgent(sock) IN
    [err |-> "nil",
     useAgent |-> useAgent,
     agentClient |-> useAgent /\ c.agentClient,
     dialed |-> useAgent /\ c.dialed,
     note |-> IF useAgent /\ c.err # "nil" THEN "Note: SSH agent not available" ELSE ""]

\* The key pair held by the key files
FileKey == 1

\* file is the public key file at the path: whether it can be read and
\* parsed, and the key it holds
AddPublicKeyFromFile(pubs, file) ==
    IF file.kind = "unreadable"
    THEN [err |-> "failed to read public key file", publicKeys |-> pubs]
    ELSE IF file.kind = "malformed"
    THEN [err |-> "failed to parse public key", publicKeys |-> pubs]
    ELSE [err |-> "nil", publicKeys |-> Append(pubs, file.key)]

GoodPassphrase == <<103>>
Passphrases == {<<>>, GoodPassphrase, <<98>>}

\* ssh.ParsePrivateKey on the content of a key file of the given kind
ParsePrivateKey(kind) ==
    IF kind = "plain" THEN "nil"
    ELSE IF kind = "protected" THEN "ssh: this private key is passphrase protected"
    ELSE "ssh: no key found"

ParsePrivateKeyWithPassphrase(kind, passphrase) ==
    IF kind = "protected"
    THEN IF passphrase = GoodPassphrase THEN "nil"
         ELSE "x509: decryption password incorrect"
    ELSE IF kind = "plain" THEN "ssh: not an encrypted key"
    ELSE "ssh: no key found"

\* answer is what agentClient.Signers() returns if it is called
AgentAnswers ==
    {[err |-> TRUE, signers |-> <<>>]}
        \cup {[err |-> FALSE, signers |-> ids] : ids \in {<<>>, <<2>>, <<1, 2>>}}

AddPrivateKeyFromFile_fileOnly(e, privs, kind, passphrase, answer) ==
    LET perr == IF Len(passphrase) > 0
                THEN ParsePrivateKeyWithPassphrase(kind, passphrase)
                ELSE ParsePrivateKey(kind)
    IN  [err |-> IF perr = "nil" THEN "nil" ELSE "failed to parse private key: " \o perr,
         privateKeys |-> IF perr = "nil" THEN Append(privs, FileKey) ELSE privs,
         asked |-> FALSE, fileRead |-> TRUE, fromAgent |-> FALSE]

AddPrivateKeyFromFile(e, privs, kind, passphrase, answer) ==
    LET asked == e.useAgent /\ e.agentClient IN
    IF asked /\ ~answer.err /\ Len(answer.signers) > 0
    THEN [err |-> "nil", privateKeys |-> privs \o answer.signers,
          asked |-> TRUE, fileRead |-> FALSE, fromAgent |-> TRUE]
    ELSE IF kind = "unreadable"
    THEN [err |-> "failed to read private key file", privateKeys |-> privs,
          asked |-> asked, fileRead |-> FALSE, fromAgent |-> FALSE]
    ELSE LET perr == IF Len(passphrase) > 0
                     THEN ParsePrivateKeyWithPassphrase(kind, passphrase)
                     ELSE ParsePrivateKey(kind)
         IN  [err |-> IF perr = "nil" THEN "nil"
                      ELSE "failed to parse private key: " \o perr,
              privateKeys |-> IF perr = "nil" THEN Append(privs, FileKey) ELSE privs,
              asked |-> asked, fileRead |-> TRUE, fromAgent |-> FALSE]

isPassphraseError_anyError(err) == err # "nil"

isPassphraseError(err) ==
    /\ err # "nil"
    /\ \/ err = "ssh: this private key is passphrase protected"
       \/ err = "failed to parse private key: ssh: this private key is passphrase protected"

\* Recipients: public key files are added to one encryptor, one after the
\* other
PublicKeyFiles == [kind : {"valid", "malformed", "unreadable"}, key : Keys]

RecipientsInit ==
    /\ publicKeys = <<>>
    /\ privateKeys = <<>>
    /\ plain = <<>>
    /\ randOk = TRUE
    /\ envelope = <<>>
    /\ encErr = "none"
    /\ tampered = FALSE
    /\ decOut = <<>>
    /\ decErr = "none"
    /\ cpc = "recipients"
    /\ dirs = {}
    /\ files = <<>>
    /\ modes = <<>>
    /\ result = [op |-> "none"]
    /\ lastOp = <<>>
    /\ nops = 0
    /\ wr = <<>>
    /\ inv = NoInvocation

AddPublicKey(file) ==
    /\ cpc = "recipients"
    /\ Len(publicKeys) < MaxRecipients
    /\ LET r == AddPublicKeyFromFile(publicKeys, file) IN
        /\ publicKeys' = r.publicKeys
        /\ result' = [op |-> "AddPublicKeyFromFile", file |-> file, err |-> r.err,
                      before |-> publicKeys]
    /\ UNCHANGED <<privateKeys, plain, randOk, envelope, encErr, tampered, decOut,
                   decErr, cpc>>
    /\ UNCHANGED <<dirs, files, modes, lastOp, nops, wr, inv>>

RecipientsNext == \E file \in PublicKeyFiles : AddPublicKey(file)

SpecRecipients == RecipientsInit /\ [][RecipientsNext]_vars

\* One call of AddPrivateKeyFromFile: its passphrase argument, what the agent
\* holds at that moment, and what the call did
LoadRecord(passphrase, answer, r) ==
    [passphrase |-> passphrase,
     asked |-> r.asked,
     answer |-> answer,
     fileRead |-> r.fileRead,
     fromAgent |-> r.fromAgent,
     err |-> r.err]

\* setupEncryptor up to the point where it returns or prompts for the
\* passphrase; e is the environment and the flags of the invocation
setupEncryptor(e, answer) ==
    LET enc == NewSSHEncryptor(~e.noAgent, e.sock)
        publicKeyPath == IF e.publicKeyPath = ""
                         THEN FirstExisting(defaultSSHPublicKeys, e.homeKeys)
                         ELSE e.publicKeyPath
        privateKeyPath == IF e.privateKeyPath = ""
                          THEN FirstExisting(defaultSSHPrivateKeys, e.homeKeys)
                          ELSE e.privateKeyPath
        pub == AddPublicKeyFromFile(<<>>, [kind |-> e.pubKind, key |-> FileKey])
        load == AddPrivateKeyFromFile(enc, <<>>, e.privKind, <<>>, answer)
        made == [pc |-> "failed", err |-> "nil", created |-> TRUE,
                 useAgent |-> enc.useAgent, agentClient |-> enc.agentClient,
                 dialed |-> enc.dialed, note |-> enc.note,
                 publicKeys |-> <<>>, privateKeys |-> <<>>,
                 loads |-> <<>>, prompts |-> 0]
    IN  IF enc.err # "nil"
        THEN [made EXCEPT !.err = "failed to create encryptor: " \o enc.err,
                          !.created = FALSE]
        ELSE IF publicKeyPath = ""
        THEN [made EXCEPT !.err = "no SSH public key found, specify with --public-key"]
        ELSE IF privateKeyPath = ""
        THEN [made EXCEPT !.err = "no SSH private key found, specify with --private-key"]
        ELSE IF pub.err # "nil"
        THEN [made EXCEPT !.err = "failed to load public key: " \o pub.err]
        ELSE LET tried == [made EXCEPT !.publicKeys = pub.publicKeys,
                                       !.privateKeys = load.privateKeys,
                                       !.loads = <<LoadRecord(<<>>, answer, load)>>]
             IN  IF load.err # "nil" /\ isPassphraseError(load.err)
                 THEN [tried EXCEPT !.pc = "prompt", !.prompts = 1]
                 ELSE IF load.err # "nil"
                 THEN [tried EXCEPT !.err = "failed to load private key: " \o load.err]
                 ELSE [tried EXCEPT !.pc = "ready"]

\* PersistentPreRunE letting every command through without the key setup
PersistentPreRunE_noKeySetup(e, answer) ==
    [pc |-> "ready", err |-> "nil", created |-> FALSE,
     useAgent |-> FALSE, agentClient |-> FALSE, dialed |-> FALSE, note |-> "",
     publicKeys |-> <<>>, privateKeys |-> <<>>, loads |-> <<>>, prompts |-> 0]

PersistentPreRunE(e, answer) ==
    LET skipped == [pc |-> "ready", err |-> "nil", created |-> FALSE,
                    useAgent |-> FALSE, agentClient |-> FALSE,
                    dialed |-> FALSE, note |-> "",
                    publicKeys |-> <<>>, privateKeys |-> <<>>,
                    loads |-> <<>>, prompts |-> 0]
        check == checkSSHEnvironment(e)
    IN  IF e.cmd \in {"completion", "help"} THEN skipped
        ELSE IF check # "nil" THEN [skipped EXCEPT !.pc = "failed", !.err = check]
        ELSE setupEncryptor(e, answer)

\* What term.ReadPassword returns: an error, or the passphrase typed
TerminalInputs ==
    {[err |-> TRUE, passphrase |-> <<>>]}
        \cup {[err |-> FALSE, passphrase |-> p] : p \in Passphrases}

\* setupEncryptor from term.ReadPassword on
setupEncryptorRetry(v, privs, input, answer) ==
    IF input.err
    THEN [pc |-> "failed", err |-> "failed to read passphrase",
          privateKeys |-> privs, loads |-> v.loads]
    ELSE LET load == AddPrivateKeyFromFile(v, privs, v.env.privKind,
                                              input.passphrase, answer)
             loads == Append(v.loads, LoadRecord(input.passphrase, answer, load))
         IN  IF load.err # "nil"
             THEN [pc |-> "failed",
                   err |-> "failed to load private key with passphrase: " \o load.err,
                   privateKeys |-> load.privateKeys, loads |-> loads]
             ELSE [pc |-> "ready", err |-> "nil",
                   privateKeys |-> load.privateKeys, loads |-> loads]

ToLower(str) == [i \in DOMAIN str |-> IF str[i] \in 65..90 THEN str[i] + 32 ELSE str[i]]

\* "y" and "yes"
Yes == { <<121>>, <<121, 101, 115>> }

\* fmt.Scanln(&response): one space-separated word and then the end of the line
Scanln(input) ==
    IF input.eof THEN [err |-> "EOF", word |-> <<>>]
    ELSE IF input.line = <<>> THEN [err |-> "unexpected newline", word |-> <<>>]
    ELSE LET words == SplitOn(input.line, 32) IN
        IF Len(words) > 1 THEN [err |-> "expected newline", word |-> words[1]]
        ELSE [err |-> "nil", word |-> words[1]]

\* One command of each kind: a store command, one that skips the key setup,
\* and the setup wizard
Commands == {"get", "help", "setup"}

StoreCommands == {"get"}

\* $HOME/.ssh
SshDir == HomeDir \o << <<46, 115, 115, 104>> >>

\* What standard input holds at a question of the wizard: nothing, or one of
\* the lines "", "Y", "n"
SetupAnswers ==
    {[eof |-> TRUE, line |-> <<>>]}
        \cup {[eof |-> FALSE, line |-> l] : l \in { <<>>, <<89>>, <<110>> }}

\* The answer a question of the wizard works with
Response(input) ==
    IF Scanln(input).err # "nil" THEN <<110>> ELSE Scanln(input).word

\* runSetup; answer1 and answer2 are read at the questions it asks, keygenOk
\* and sshAddOk tell how ssh-keygen and ssh-add end, listed whether ssh-add -l
\* shows identities
runSetup(e, ds, fs, answer1, keygenOk, listed, answer2, sshAddOk) ==
    LET found == FirstExisting(defaultSSHPrivateKeys, e.homeKeys) # ""
        mk == MkdirAll(ds, fs, SshDir)
        agent ==
            IF e.sock = "" \/ listed \/ ToLower(Response(answer2)) \notin Yes
            THEN "nil"
            ELSE IF sshAddOk THEN "nil" ELSE "failed to add key to SSH agent"
    IN  IF ~e.sshInPath
        THEN [err |-> "SSH not installed", offered |-> FALSE, dirs |-> ds]
        ELSE IF found THEN [err |-> agent, offered |-> FALSE, dirs |-> ds]
        ELSE IF ToLower(Response(answer1)) \notin Yes
        THEN [err |-> "no SSH keys available", offered |-> TRUE, dirs |-> ds]
        ELSE IF mk.err # "nil"
        THEN [err |-> "failed to create SSH directory", offered |-> TRUE, dirs |-> ds]
        ELSE IF ~keygenOk
        THEN [err |-> "failed to generate SSH key", offered |-> TRUE, dirs |-> mk.dirs]
        ELSE [err |-> agent, offered |-> TRUE, dirs |-> mk.dirs]

HomeKeySets ==
    { {}, {"id_rsa"}, {"id_rsa", "id_rsa.pub"},
      {"id_ed25519", "id_ed25519.pub", "id_rsa", "id_rsa.pub"} }

Environments ==
    [cmd : Commands, sshInPath : BOOLEAN, homeKeys : HomeKeySets,
     publicKeyPath : {"", "k.pub"}, privateKeyPath : {"", "k"}, noAgent : BOOLEAN,
     sock : {"", "dead", "live"},
     pubKind : {"valid", "malformed", "unreadable"},
     privKind : {"plain", "protected", "malformed", "unreadable"}]

SetupInit ==
    /\ publicKeys = <<>>
    /\ privateKeys = <<>>
    /\ plain = <<>>
    /\ randOk = TRUE
    /\ envelope = <<>>
    /\ encErr = "none"
    /\ tampered = FALSE
    /\ decOut = <<>>
    /\ decErr = "none"
    /\ cpc = "cli"
    /\ dirs = AncestorsOrSelf(HomeDir)
    /\ files = <<>>
    /\ modes = [p \in AncestorsOrSelf(HomeDir) |-> "0755"]
    /\ result = [op |-> "none"]
    /\ lastOp = <<>>
    /\ nops = 0
    /\ wr = <<>>
    /\ \E e \in Environments :
        inv = [pc |-> "prerun", env |-> e, err |-> "nil", created |-> FALSE,
               useAgent |-> FALSE, agentClient |-> FALSE, dialed |-> FALSE,
               note |-> "", loads |-> <<>>, prompts |-> 0, ran |-> FALSE,
               offered |-> FALSE, runErr |-> "nil"]

PreRun(answer) ==
    /\ inv.pc = "prerun"
    /\ LET r == PersistentPreRunE(inv.env, answer) IN
        /\ inv' = [inv EXCEPT !.pc = r.pc, !.err = r.err, !.created = r.created,
                              !.useAgent = r.useAgent, !.agentClient = r.agentClient,
                              !.dialed = r.dialed, !.note = r.note,
                              !.loads = r.loads, !.prompts = r.prompts]
        /\ publicKeys' = r.publicKeys
        /\ privateKeys' = r.privateKeys
    /\ UNCHANGED <<plain, randOk, envelope, encErr, tampered, decOut, decErr, cpc>>
    /\ UNCHANGED storeVars

ReadPassphrase(input, answer) ==
    /\ inv.pc = "prompt"
    /\ LET r == setupEncryptorRetry(inv, privateKeys, input, answer) IN
        /\ inv' = [inv EXCEPT !.pc = r.pc, !.err = r.err, !.loads = r.loads]
        /\ privateKeys' = r.privateKeys
    /\ UNCHANGED <<publicKeys, plain, randOk, envelope, encErr, tampered, decOut,
                   decErr, cpc>>
    /\ UNCHANGED storeVars

\* A store command: getStore and then the operation, here Get of "a"
RunStoreCommand ==
    /\ inv.pc = "ready"
    /\ inv.env.cmd \in StoreCommands
    /\ LET store == NewStore(dirs, files, RootDir)
           r == Get(store.dirs, files, privateKeys, <<97>>)
       IN  /\ dirs' = store.dirs
           /\ modes' = ModesAfter(modes, store.dirs, files)
           /\ result' = [op |-> "Get", name |-> <<97>>,
                         err |-> IF store.err # "nil" THEN store.err ELSE r.err,
                         publicKeys |-> publicKeys, privateKeys |-> privateKeys]
           /\ inv' = [inv EXCEPT !.pc = "ran", !.ran = TRUE,
                                 !.runErr = IF store.err # "nil" THEN store.err
                                            ELSE r.err]
    /\ UNCHANGED <<files, lastOp, nops, wr>>
    /\ UNCHANGED cipherVars

RunSetup(answer1, keygenOk, listed, answer2, sshAddOk) ==
    /\ inv.pc = "ready"
    /\ inv.env.cmd = "setup"
    /\ LET r == runSetup(inv.env, dirs, files, answer1, keygenOk, listed, answer2,
                         sshAddOk)
       IN  /\ dirs' = r.dirs
           /\ modes' = ModesAfter(modes, r.dirs, files)
           /\ inv' = [inv EXCEPT !.pc = "ran", !.ran = TRUE, !.runErr = r.err,
                                 !.offered = r.offered]
    /\ UNCHANGED <<files, result, lastOp, nops, wr>>
    /\ UNCHANGED cipherVars

\* help prints the usage text
RunHelp ==
    /\ inv.pc = "ready"
    /\ inv.env.cmd = "help"
    /\ inv' = [inv EXCEPT !.pc = "ran", !.ran = TRUE]
    /\ UNCHANGED <<cipherVars, storeVars>>

\* cobra runs the command's RunE only when PersistentPreRunE returned nil
RunCommand ==
    \/ RunStoreCommand
    \/ \E answer1, answer2 \in SetupAnswers, keygenOk, listed, sshAddOk \in BOOLEAN :
            RunSetup(answer1, keygenOk, listed, answer2, sshAddOk)
    \/ RunHelp

SetupNext ==
    \/ \E answer \in AgentAnswers : PreRun(answer)
    \/ \E input \in TerminalInputs, answer \in AgentAnswers :
           ReadPassphrase(input, answer)
    \/ RunCommand

SpecSetup == SetupInit /\ [][SetupNext]_vars

----------------------------------------------------------------------------
(* The add and delete commands, run by invocations whose key setup         *)
(* succeeded.                                                              *)

MaxCmds == 2

\* The names the commands are run with: "a", "a/b", "a.pass/b"
CmdNames == { <<97>>, <<97, 47, 98>>, <<97>> \o Ext \o <<47, 98>> }

\* What standard input holds when the delete command asks: nothing (the
\* read fails), or one line: "", "y", "Y", "yes", "YES", "n", "no", "y x"
AnswerInputs ==
    {[eof |-> TRUE, line |-> <<>>]}
        \cup {[eof |-> FALSE, line |-> l] :
                l \in { <<>>, <<121>>, <<89>>, <<121, 101, 115>>, <<89, 69, 83>>,
                        <<110>>, <<110, 111>>, <<121, 32, 120>> }}

\* The delete command without its question
DeleteCmd_noConfirmation(ds, fs, privs, name, input) ==
    LET store == NewStore(ds, fs, RootDir)
        del == DeleteResult(store.dirs, fs, name)
    IN  IF store.err # "nil"
        THEN [err |-> store.err, dirs |-> ds, files |-> fs, prompted |-> FALSE]
        ELSE [err |-> del.err, dirs |-> del.dirs, files |-> del.files,
              prompted |-> FALSE]

\* RunE of the delete command
DeleteCmd(ds, fs, privs, name, input) ==
    LET store == NewStore(ds, fs, RootDir)
        got == Get(store.dirs, fs, privs, name)
        scan == Scanln(input)
        response == IF scan.err # "nil" THEN <<110>> ELSE scan.word
        del == DeleteResult(store.dirs, fs, name)
    IN  IF store.err # "nil"
        THEN [err |-> store.err, dirs |-> ds, files |-> fs, prompted |-> FALSE]
        ELSE IF got.err # "nil"
        THEN [err |-> "password not found", dirs |-> store.dirs, files |-> fs,
              prompted |-> FALSE]
        ELSE IF ToLower(response) \notin Yes
        THEN [err |-> "nil", dirs |-> store.dirs, files |-> fs, prompted |-> TRUE]
        ELSE [err |-> del.err, dirs |-> del.dirs, files |-> del.files,
              prompted |-> TRUE]

\* What term.ReadPassword returns at a password prompt
PasswordInputs ==
    {[err |-> TRUE, text |-> <<>>]}
        \cup {[err |-> FALSE, text |-> t] : t \in Secrets \cup {<<>>}}

\* The password generateRandomPassword returns
GeneratedPassword == <<107>>

\* The add command with one prompt only
AddCmd_singlePrompt(ds, fs, pubs, name, generate, in1, in2, rnd) ==
    LET store == NewStore(ds, fs, RootDir)
        add == AddResult(store.dirs, fs, pubs, name, in1.text, rnd)
    IN  IF in1.err
        THEN [err |-> "failed to read password", dirs |-> ds, files |-> fs]
        ELSE IF store.err # "nil"
        THEN [err |-> store.err, dirs |-> ds, files |-> fs]
        ELSE [err |-> add.err, dirs |-> add.dirs, files |-> add.files]

\* RunE of the add command; in1 and in2 are read at the two prompts, rnd
\* tells whether the system's random source works
AddCmd(ds, fs, pubs, name, generate, in1, in2, rnd) ==
    LET store == NewStore(ds, fs, RootDir)
        kept == [err |-> "nil", dirs |-> store.dirs, files |-> fs]
        password == IF generate THEN GeneratedPassword ELSE in1.text
        add == AddResult(store.dirs, fs, pubs, name, password, rnd)
        stored == [err |-> add.err, dirs |-> add.dirs, files |-> add.files]
    IN  IF store.err # "nil"
        THEN [err |-> store.err, dirs |-> ds, files |-> fs]
        ELSE IF generate
        THEN IF ~rnd THEN [kept EXCEPT !.err = "failed to generate password"]
             ELSE stored
        ELSE IF in1.err THEN [kept EXCEPT !.err = "failed to read password"]
        ELSE IF in2.err
        THEN [kept EXCEPT !.err = "failed to read confirmation password"]
        ELSE IF in1.text # in2.text
        THEN [kept EXCEPT !.err = "passwords do not match"]
        ELSE stored

CmdInit ==
    /\ publicKeys = <<1>>
    /\ privateKeys = <<1>>
    /\ plain = <<>>
    /\ randOk = TRUE
    /\ envelope = <<>>
    /\ encErr = "none"
    /\ tampered = FALSE
    /\ decOut = <<>>
    /\ decErr = "none"
    /\ cpc = "commands"
    /\ dirs = AncestorsOrSelf(HomeDir)
    /\ files = <<>>
    /\ modes = [p \in AncestorsOrSelf(HomeDir) |-> "0755"]
    /\ result = [op |-> "none"]
    /\ lastOp = <<>>
    /\ nops = 0
    /\ wr = <<>>
    /\ inv = NoInvocation

AddCommand(name, generate, in1, in2, rnd) ==
    /\ cpc = "commands"
    /\ nops < MaxCmds
    /\ LET r == AddCmd(dirs, files, publicKeys, name, generate, in1, in2, rnd) IN
        /\ dirs' = r.dirs
        /\ files' = r.files
        /\ modes' = ModesAfter(modes, r.dirs, r.files)
        /\ result' = [op |-> "add", name |-> name, err |-> r.err,
                      generate |-> generate, in1 |-> in1, in2 |-> in2,
                      dirs0 |-> dirs, files0 |-> files]
    /\ nops' = nops + 1
    /\ UNCHANGED <<lastOp, wr, inv>>
    /\ UNCHANGED cipherVars

DeleteCommand(name, input) ==
    /\ cpc = "commands"
    /\ nops < MaxCmds
    /\ LET r == DeleteCmd(dirs, files, privateKeys, name, input) IN
        /\ dirs' = r.dirs
        /\ files' = r.files
        /\ modes' = ModesAfter(modes, r.dirs, r.files)
        /\ result' = [op |-> "delete", name |-> name, err |-> r.err,
                      input |-> input, prompted |-> r.prompted,
                      dirs0 |-> dirs, files0 |-> files]
    /\ nops' = nops + 1
    /\ UNCHANGED <<lastOp, wr, inv>>
    /\ UNCHANGED cipherVars

\* With --generate nothing is read from the terminal
NothingRead == [err |-> TRUE, text |-> <<>>]

CmdNext ==
    \/ \E name \in CmdNames, in1, in2 \in PasswordInputs, rnd \in BOOLEAN :
            AddCommand(name, FALSE, in1, in2, rnd)
    \/ \E name \in CmdNames, rnd \in BOOLEAN :
            AddCommand(name, TRUE, NothingRead, NothingRead, rnd)
    \/ \E name \in CmdNames, input \in AnswerInputs : DeleteCommand(name, input)

SpecCmd == CmdInit /\ [][CmdNext]_vars

----------------------------------------------------------------------------
(* Properties of the store *)

Count(seq, x) == Cardinality({i \in DOMAIN seq : seq[i] = x})

CurrentGet(name) == Get(dirs, files, privateKeys, name)

CurrentList == List(dirs, files, RootDir)

\* C5: if the last successful Add or Delete on name n was Add(n, s), then
\* Get(n) returns exactly s and List() contains n exactly once.
C5_LastAddIsRead ==
    \A n \in Names :
        lastOp[n].kind = "add" =>
            /\ CurrentGet(n).err = "nil"
            /\ CurrentGet(n).out = lastOp[n].secret
            /\ Count(CurrentList.entries, n) = 1

\* C6: an Add on a name that already has an entry succeeds and replaces the
\* entry entirely: Get returns the new secret, List contains the name exactly
\* once, and the entry file holds the new envelope and nothing else.
C6_AddReplaces ==
    (result.op = "Add" /\ result.existed /\ result.cause # "ErrRandomKey") =>
        /\ result.err = "nil"
        /\ CurrentGet(result.name).err = "nil"
        /\ CurrentGet(result.name).out = lastOp[result.name].secret
        /\ Count(CurrentList.entries, result.name) = 1
        /\ files[FilePath[result.name]]
             = Encrypt(publicKeys, lastOp[result.name].secret, TRUE).out

\* C7: after a successful Delete(x) and until a later Add(x, _), Get(x) fails
\* with a not-found error and x is not in List().
C7_DeletedStaysGone ==
    \A n \in Names :
        lastOp[n].kind = "delete" =>
            /\ CurrentGet(n).err = "ErrRead"
            /\ CurrentGet(n).cause = "ENOENT"
            /\ Count(CurrentList.entries, n) = 0

\* A name that is empty, absolute, or has an empty, "." or ".." segment
InvalidName(name) ==
    \/ name = <<>>
    \/ name[1] = Slash
    \/ \E i \in DOMAIN SplitOn(name, Slash) :
           SplitOn(name, Slash)[i] \in {<<>>, <<Dot>>, <<Dot, Dot>>}

\* C8: Add rejects every invalid name with an error, creating no file and no
\* directory.
C8_InvalidNameRejected ==
    (result.op = "Add" /\ InvalidName(result.name)) =>
        (result.err # "nil" /\ result.created = {})

StrictlyInside(root, p) == IsPrefix(root, p) /\ Len(p) > Len(root)

\* C9: every path an Add, Get or Delete creates, reads, overwrites or removes
\* lies strictly inside the store root.
C9_StaysInsideRoot ==
    result.op \in {"Add", "Get", "Delete"} =>
        \A p \in result.touched : StrictlyInside(RootDir, p)

\* C10: while an Add runs undisturbed by other writers, and after it was
\* terminated midway, a reader of the entry's path sees the state before the
\* Add or the complete new envelope.
C10_NoPartialEntry ==
    \A p \in Procs :
        (wr[p].pc \in {"mkdir", "open", "write", "killed", "done"} /\ wr[p].alone) =>
            \/ Observed(files, wr[p].path) = wr[p].before
            \/ Observed(files, wr[p].path) = [exists |-> TRUE, data |-> wr[p].data]

Complete(p) == [exists |-> TRUE, data |-> wr[p].data]

\* C11: when two invocations have run Add at the same time, entries of
\* different names each hold their own complete envelope, and an entry both
\* wrote holds exactly one of the two complete envelopes, never a mixture.
C11_ConcurrentAdds ==
    (\A p \in Procs : wr[p].pc = "done") =>
        IF \E p, q \in Procs : p # q /\ wr[p].path = wr[q].path
        THEN \E p \in Procs : Observed(files, wr[p].path) = Complete(p)
        ELSE \A p \in Procs : Observed(files, wr[p].path) = Complete(p)

\* C12 (as stated): List returns the names in ascending byte-wise order of the
\* names themselves, also when one name is a prefix of another.
C12_ListSortedByName ==
    result.op = "List" =>
        \A i, j \in DOMAIN result.entries :
            i < j => StrLess(result.entries[i], result.entries[j])

EntrySegments(name) == SplitOn(name \o Ext, Slash)

RECURSIVE PathLess(_, _)
PathLess(p, q) ==
    IF q = <<>> THEN FALSE
    ELSE IF p = <<>> THEN TRUE
    ELSE IF p[1] # q[1] THEN StrLess(p[1], q[1])
    ELSE PathLess(Tail(p), Tail(q))

WalkLess(a, b) == PathLess(EntrySegments(a), EntrySegments(b))

\* C12 (amended): List returns the names in the order of their entry files'
\* paths compared segment by segment, each segment byte-wise and the last one
\* with its extension; the same store content always gives the same sequence.
C12_ListInWalkOrder ==
    /\ \A i, j \in DOMAIN CurrentList.entries :
        i < j => WalkLess(CurrentList.entries[i], CurrentList.entries[j])
    /\ result.op = "List" => result.entries = CurrentList.entries

C12_Witness ==
    /\ result.op = "List"
    /\ \E i, j \in DOMAIN result.entries :
        i < j /\ StrLess(result.entries[j], result.entries[i])

Added == {n \in Names : lastOp[n].kind = "add"}

\* C13: the names List returns are exactly the names that were added and not
\* deleted since, each once, and none of them is a directory.
C13_ListIsEntrySet ==
    result.op = "List" =>
        /\ Range(result.entries) = Added
        /\ \A i \in DOMAIN result.entries :
            /\ Count(result.entries, result.entries[i]) = 1
            /\ Join(RootDir, result.entries[i] \o Ext) \notin dirs

\* C14: Delete of a name without an entry file fails with a not-found error
\* and changes nothing; a successful Delete removes the entry's file and
\* nothing else, so other entries and all directories stay.
C14_DeleteFrame ==
    result.op = "Delete" =>
        IF result.existed
        THEN /\ result.err = "nil"
             /\ result.touched = {FilePath[result.name]}
             /\ FilePath[result.name] \notin DOMAIN files
        ELSE /\ result.err # "nil"
             /\ result.cause = "ENOENT"
             /\ result.touched = {}

\* C15: Get fails with a not-found error when the entry file is absent, hands
\* on the cipher's own error when decryption fails, and never returns a
\* secret together with an error.
C15_GetErrors ==
    result.op = "Get" =>
        /\ ~result.existed => result.err = "ErrRead" /\ result.cause = "ENOENT"
        /\ result.err = "ErrDecryption" =>
            result.cause \in AuthErrors \cup IntegrityErrors
        /\ result.err # "nil" => result.out = <<>>

\* C17: two different names that Add accepted never have the same entry file.
C17_OneToOne ==
    \A n1, n2 \in Added : n1 # n2 => FilePath[n1] # FilePath[n2]

\* C16: after NewStore and Add operations every directory the store created
\* has mode 0700 and every entry file Add wrote has mode 0600, also a file
\* that existed before with another mode.
C16_OwnerOnlyModes ==
    /\ (result.op = "NewStore" /\ result.err = "nil") =>
            \A p \in result.created : modes[p] = DirPerm
    /\ (result.op = "Add" /\ result.err = "nil") =>
            /\ \A p \in result.created \cap dirs : modes[p] = DirPerm
            /\ modes[FilePath[result.name]] = FilePerm

\* The invocation has entered setupEncryptor
InSetup ==
    /\ inv.pc \notin {"none", "prerun"}
    /\ inv.env.cmd \notin {"completion", "help"}
    /\ checkSSHEnvironment(inv.env) = "nil"

\* C18: the passphrase is asked for at most once, and only after a first load
\* without passphrase that failed because the key file is passphrase-protected;
\* when the retry fails, or the first load fails for another reason, the
\* invocation ends with an error and the command is never run.
C18_PromptOnce ==
    /\ inv.prompts <= 1
    /\ Len(inv.loads) <= 2
    /\ inv.prompts = 1 =>
        /\ Len(inv.loads) >= 1
        /\ inv.loads[1].passphrase = <<>>
        /\ inv.loads[1].fileRead
        /\ inv.loads[1].err # "nil"
        /\ inv.env.privKind = "protected"
    /\ Len(inv.loads) = 2 => inv.prompts = 1 /\ inv.pc # "prompt"
    /\ (Len(inv.loads) >= 1 /\ inv.loads[1].err # "nil"
            /\ inv.env.privKind # "protected") =>
        inv.prompts = 0 /\ inv.pc = "failed" /\ inv.err # "nil" /\ ~inv.ran
    /\ (Len(inv.loads) = 2 /\ inv.loads[2].err # "nil") =>
        inv.pc = "failed" /\ inv.err # "nil" /\ ~inv.ran

C18_Witness ==
    /\ inv.prompts = 1
    /\ Len(inv.loads) = 2
    /\ inv.loads[2].err # "nil"
    /\ inv.pc = "failed"

\* C19: with the agent allowed but SSH_AUTH_SOCK unset or nobody listening,
\* the encryptor is still created, without an agent client, and every load of
\* the private key goes to the key file without asking the agent.
C19_AgentUnavailable ==
    (InSetup /\ ~inv.env.noAgent /\ inv.env.sock # "live") =>
        /\ inv.created
        /\ inv.useAgent
        /\ ~inv.agentClient
        /\ \A i \in DOMAIN inv.loads :
            /\ ~inv.loads[i].asked
            /\ ~inv.loads[i].fromAgent
            /\ inv.env.privKind # "unreadable" => inv.loads[i].fileRead
        /\ (inv.loads # <<>> /\ inv.env.privKind = "plain") =>
            /\ inv.loads[1].err = "nil"
            /\ privateKeys = <<FileKey>>
            /\ inv.pc \in {"ready", "ran"}

C19_Witness ==
    /\ InSetup /\ ~inv.env.noAgent /\ inv.env.sock = "dead"
    /\ inv.pc = "ran"
    /\ inv.loads[1].fileRead
    /\ privateKeys = <<FileKey>>

AgentHasKeys(l) == ~l.answer.err /\ Len(l.answer.signers) > 0

\* C20: with the agent allowed and connected, a load takes the agent's
\* identities when it has any and then neither reads the key file nor needs a
\* passphrase, and takes the key file when the agent has none or cannot list
\* them; with the agent disallowed the agent is never contacted and only the
\* key file's signer is added.
C20_AgentPreferred ==
    InSetup =>
        /\ \A i \in DOMAIN inv.loads :
            LET l == inv.loads[i] IN
            IF ~inv.env.noAgent /\ inv.env.sock = "live"
            THEN /\ l.asked
                 /\ AgentHasKeys(l) => l.fromAgent /\ ~l.fileRead /\ l.err = "nil"
                 /\ ~AgentHasKeys(l) =>
                        /\ ~l.fromAgent
                        /\ inv.env.privKind # "unreadable" => l.fileRead
            ELSE ~l.asked /\ ~l.fromAgent
        /\ inv.env.noAgent => ~inv.dialed /\ ~inv.agentClient
        /\ (Len(inv.loads) = 1 /\ inv.loads[1].err = "nil") =>
            /\ inv.prompts = 0
            /\ privateKeys = IF inv.loads[1].fromAgent
                             THEN inv.loads[1].answer.signers
                             ELSE <<FileKey>>
        /\ (Len(inv.loads) = 2 /\ inv.loads[2].err = "nil") =>
            privateKeys = IF inv.loads[2].fromAgent
                          THEN inv.loads[2].answer.signers
                          ELSE <<FileKey>>

C20_Witness ==
    /\ InSetup /\ inv.pc = "ran"
    /\ inv.env.privKind = "protected"
    /\ inv.prompts = 0
    /\ inv.loads[1].fromAgent
    /\ privateKeys = <<1, 2>>

\* C21: the recipient list never holds the same public key twice, and an
\* addition that cannot read or parse its file leaves the list as it was.
C21_RecipientsDistinct ==
    /\ \A i, j \in DOMAIN publicKeys : i # j => publicKeys[i] # publicKeys[j]
    /\ (result.op = "AddPublicKeyFromFile" /\ result.err # "nil") =>
            publicKeys = result.before

Confirmed(input) == ~input.eof /\ ToLower(input.line) \in Yes

C24_FreshContentKey ==
    \A p, q \in DOMAIN files : p # q => files[p] # files[q]

\* C25: what Decrypt returns with at least one signer loaded is decided by the
\* first colon-separated field of the envelope alone: its base64 decoding, or
\* the error of that decoding, whatever the signers and the recipient fields.
C25_DecryptIgnoresKeys ==
    (cpc = "decrypted" /\ Len(privateKeys) >= 1) =>
        LET parts == SplitOn(envelope, Colon) IN
            IF Len(parts) < 2 THEN decErr = "ErrInvalidFormat"
            ELSE IF DecodeString(parts[1]).ok
            THEN decErr = "nil" /\ decOut = DecodeString(parts[1]).val
            ELSE decErr = "ErrDecode"

C25_Witness ==
    /\ cpc = "decrypted"
    /\ encErr = "nil"
    /\ Len(privateKeys) >= 1
    /\ \A i \in DOMAIN privateKeys, j \in DOMAIN publicKeys :
            privateKeys[i] # publicKeys[j]
    /\ tampered
    /\ decErr = "nil"

\* C26: for every plaintext, the empty one included, and n >= 1 public keys
\* the output of Encrypt has n+1 colon-separated fields, the data field and
\* then one field per key in the order the keys were added, so Decrypt never
\* answers it with the format error.
C26_EnvelopeFields ==
    (encErr = "nil" /\ ~tampered) =>
        LET parts == SplitOn(envelope, Colon) IN
            /\ Len(publicKeys) >= 1
            /\ Len(parts) = Len(publicKeys) + 1
            /\ parts[1] = EncodeToString(plain)
            /\ \A i \in DOMAIN publicKeys :
                    parts[i + 1] = EncodeToString(Marshal(publicKeys[i]))
            /\ cpc = "decrypted" => decErr # "ErrInvalidFormat"

C26_Witness ==
    /\ encErr = "nil" /\ ~tampered
    /\ plain = <<>>
    /\ Len(publicKeys) = 2 /\ publicKeys[1] # publicKeys[2]
    /\ cpc = "decrypted"
    /\ decErr = "nil"

\* C27: when the encryption inside Store.Add fails, Add returns an error and
\* the store is as before: no directory is created, no file is created or
\* truncated, and an entry that exists keeps its content.
C27_FailedEncryptionKeepsStore ==
    [][(nops' = nops + 1 /\ result'.op = "Add" /\ ~result'.rnd) =>
            /\ result'.err = "ErrEncryption"
            /\ dirs' = dirs
            /\ files' = files
            /\ modes' = modes]_vars

C27_Witness ==
    /\ result.op = "Add"
    /\ ~result.rnd
    /\ result.err = "ErrEncryption"
    /\ result.existed
    /\ FilePath[result.name] \in DOMAIN files
    /\ ParentDir[result.name] # RootDir

\* C28: entries of different valid names never interfere: when an Add of n1
\* succeeded and n1 was not deleted since, an Add of another valid name n2
\* whose encryption works succeeds, and afterwards Get of n1 and of n2 return
\* the secrets stored for them.
C28_NamesIndependent ==
    \A n1, n2 \in Names :
        ( /\ n1 # n2
          /\ ~InvalidName(n1) /\ ~InvalidName(n2)
          /\ lastOp[n1].kind = "add"
          /\ result.op = "Add" /\ result.name = n2 /\ result.rnd ) =>
            /\ result.err = "nil"
            /\ Get(dirs, files, publicKeys, n1).err = "nil"
            /\ Get(dirs, files, publicKeys, n1).out = lastOp[n1].secret
            /\ Get(dirs, files, publicKeys, n2).err = "nil"
            /\ Get(dirs, files, publicKeys, n2).out = lastOp[n2].secret

\* C29: a store operation runs only after the key setup of its invocation
\* ended without error with at least one public key and one signer loaded,
\* and an invocation whose key setup failed ends with the store neither
\* created nor touched.
C29_StoreAfterKeySetup ==
    /\ (RootDir \in dirs \/ result.op # "none") =>
        /\ inv.env.cmd \in StoreCommands
        /\ inv.pc = "ran"
        /\ inv.err = "nil"
        /\ inv.created
        /\ Len(publicKeys) >= 1
        /\ Len(privateKeys) >= 1
    /\ (inv.env.cmd \in StoreCommands /\ inv.pc = "failed") =>
        /\ inv.err # "nil"
        /\ ~inv.ran
        /\ RootDir \notin dirs
        /\ files = <<>>
        /\ result.op = "none"

C29_Witness ==
    /\ inv.env.cmd \in StoreCommands
    /\ inv.pc = "ran"
    /\ inv.prompts = 1
    /\ RootDir \in dirs
    /\ result.op = "Get"

\* C30: setup on a host that has ssh and no private key under the default
\* directory is not ended by the environment check: when such an invocation
\* ends with an error, the wizard has offered to generate a key before.
C30_SetupOffersKey ==
    ( /\ inv.env.cmd = "setup"
      /\ inv.env.sshInPath
      /\ FirstExisting(defaultSSHPrivateKeys, inv.env.homeKeys) = ""
      /\ inv.pc \in {"failed", "ran"} ) => inv.offered

====
